---- MODULE Spec2Model ----
(***************************************************************************)
(* Birthday Songs: the supply-capped sales contract (the Solidity listing  *)
(* of apps/jose-dashboard/README.md), the payment token it moves, the D1   *)
(* order ledger behind the API worker, the ArDrive upload service and the  *)
(* order / fulfilment flows of the two front ends.                         *)
(***************************************************************************)
EXTENDS Integers, Sequences, FiniteSets, TLC

\* ------------------------------------------------------------------------
\* Addresses
\* ------------------------------------------------------------------------
ZERO == "0x0"
THIS == "BirthdaySongs"
Users == {"creator", "platform", "alice"}
Deployer == "creator"
Addresses == Users \cup {ZERO}
Holders == Users \cup {THIS}

\* ------------------------------------------------------------------------
\* Program constants
\* ------------------------------------------------------------------------
BIRTHDAY == 0
NATAL == 1
SongTypes == {BIRTHDAY, NATAL}

\* The deployed caps are 25 / 25 / 50; the model runs the same code with
\* small caps so that "sold out" is reached.
BIRTHDAY_SUPPLY_LIMIT == 1
NATAL_SUPPLY_LIMIT == 1
TOTAL_SUPPLY_LIMIT == BIRTHDAY_SUPPLY_LIMIT + NATAL_SUPPLY_LIMIT

PLATFORM_FEE == 500000
InitialBirthdayPrice == 25000000
InitialNatalPrice == 250000000

\* ------------------------------------------------------------------------
\* Bounds of the model
\* ------------------------------------------------------------------------
MaxTime == 1
InitialFunds == 260000000
\* a customer who can pay for one song of each type (25 + 250 USDC)
AmpleFunds == 300000000
\* amount a holder sends to the contract directly
Donation == 100000000
\* argument pairs tried for setPrices(_birthdayPrice, _natalPrice)
PriceInputs == {<<0, 300000>>}
\* callers tried for the mint functions, and for the owner-only functions
Minters == {"alice"}
Admins == {"creator", "platform"}
\* recipients tried for transferOwnership / transferFrom
Recipients == {"platform", ZERO}
Refusals == {{}, {"creator"}, {"platform"}}
OrderUris == {"", "ardrive://tx1"}
SongUris == {"", "ardrive://tx1", "ardrive://tx2"}

\* content identifiers handed out by the content store, in order
TxIds == <<"tx1", "tx2", "tx3", "tx4", "tx5", "tx6">>
MaxRows == 2
MaxUploads == 2
\* a JSON field that is absent from the request body
Undefined == 0 - 1
\* SQL NULL in an integer column
NullTime == 0 - 1

VARIABLES
    owner,                  \* Ownable._owner
    platformWallet,
    birthdayPrice,
    natalPrice,
    birthdaysMinted,
    natalsMinted,
    nextTokenId,            \* _nextTokenId
    lastWithdrawnTokenId,
    orders,                 \* mapping(uint256 => Order), on the minted ids
    tokenOwner,             \* ERC721._owners, on the minted ids
    usdcBalance,            \* payment token balances
    usdcAllowance,          \* payment token allowances towards THIS
    now,                    \* block.timestamp / wall clock
    lastCall,               \* receipt of the contract call made by this step
    ledger,                 \* D1 table orders, in insertion order
    arweave,                \* content store: uploaded items, in upload order
    lastResp,               \* HTTP response of the request served by this step
    apiBase,                \* NEXT_PUBLIC_API_URL: "worker" or "service"
    cust,                   \* order form: step, selectedTier, orderDataUri
    creator,                \* dashboard: uploadStep, selectedOrder, songUri
    box                     \* encryption helper: last encrypt / decrypt call

contractVars == <<owner, platformWallet, birthdayPrice, natalPrice,
                  birthdaysMinted, natalsMinted, nextTokenId,
                  lastWithdrawnTokenId, orders, tokenOwner>>
usdcVars == <<usdcBalance, usdcAllowance>>
chainVars == <<contractVars, usdcVars>>

gatewayVars == <<ledger, arweave>>

flowVars == <<apiBase, cust, creator, box>>

vars == <<chainVars, now, lastCall, gatewayVars, lastResp, flowVars>>

NoCall == [op |-> "none", sender |-> ZERO, arg |-> -1,
           ok |-> TRUE, error |-> "", ret |-> -1,
           toPlatform |-> 0, toOwner |-> 0]

Call(op, sender, arg) ==
    [NoCall EXCEPT !.op = op, !.sender = sender, !.arg = arg]

NoResp == [op |-> "none", status |-> 0, error |-> "", tokenId |-> Undefined,
           user |-> ZERO, arweaveId |-> "", songData |-> "", orders |-> {}]

Resp(op, status, error) ==
    [NoResp EXCEPT !.op = op, !.status = status, !.error = error]

\* no call of the encryption helper made yet
NoBox == [stage |-> "empty", data |-> "", password |-> "", failed |-> FALSE,
          cipher |-> <<>>, key |-> "", subtle |-> TRUE, out |-> ""]

IsMint(call) == call.op \in {"mintBirthdaySong", "mintNatalSong"}

Revert_KeepsCounter(call, err) ==
    /\ lastCall' = [call EXCEPT !.ok = FALSE, !.error = err]
    /\ birthdaysMinted' =
         IF call.op = "mintBirthdaySong" /\ err # "Birthday songs sold out"
         THEN birthdaysMinted + 1 ELSE birthdaysMinted
    /\ UNCHANGED <<owner, platformWallet, birthdayPrice, natalPrice,
                   natalsMinted, nextTokenId, lastWithdrawnTokenId, orders,
                   tokenOwner, usdcVars>>

Revert_ConsumesId(call, err) ==
    /\ lastCall' = [call EXCEPT !.ok = FALSE, !.error = err]
    /\ nextTokenId' =
         IF IsMint(call) /\ err = "ERC20: transfer failed"
         THEN nextTokenId + 1 ELSE nextTokenId
    /\ UNCHANGED <<owner, platformWallet, birthdayPrice, natalPrice,
                   birthdaysMinted, natalsMinted, lastWithdrawnTokenId,
                   orders, tokenOwner, usdcVars>>

Revert_KeepsPlatformTransfer(call, err) ==
    LET balance == usdcBalance[THIS]
        due == (nextTokenId - lastWithdrawnTokenId) * PLATFORM_FEE
        fee == IF due > balance THEN balance ELSE due
        paid == /\ call.op = "withdraw"
                /\ err = "ERC20: transfer failed"
                /\ platformWallet # "0x0"
    IN  /\ lastCall' = [call EXCEPT !.ok = FALSE, !.error = err]
        /\ usdcBalance' =
             IF paid
             THEN [usdcBalance EXCEPT !["BirthdaySongs"] = @ - fee,
                                      ![platformWallet] = @ + fee]
             ELSE usdcBalance
        /\ UNCHANGED <<owner, platformWallet, birthdayPrice, natalPrice,
                       birthdaysMinted, natalsMinted, nextTokenId,
                       lastWithdrawnTokenId, orders, tokenOwner,
                       usdcAllowance>>

\* A reverted transaction: every storage write is rolled back.
Revert(call, err) ==
    /\ lastCall' = [call EXCEPT !.ok = FALSE, !.error = err]
    /\ UNCHANGED chainVars

\* ------------------------------------------------------------------------
\* Payment token (ERC20 as used through SafeERC20)
\* ------------------------------------------------------------------------
\* transferFrom(from, THIS, amount) succeeds
CanTransferFrom(from, amount) ==
    /\ usdcAllowance[from] >= amount
    /\ usdcBalance[from] >= amount

\* transfer(to, amount) out of THIS succeeds
CanTransfer(to, amount) ==
    /\ to # ZERO
    /\ usdcBalance[THIS] >= amount

Move(bal, from, to, amount) ==
    [h \in Holders |->
        bal[h] - (IF h = from THEN amount ELSE 0)
               + (IF h = to THEN amount ELSE 0)]

\* approve(THIS, amount), as the order form sends it before a mint
approve(sender, amount) ==
    /\ usdcAllowance' = [usdcAllowance EXCEPT ![sender] = amount]
    /\ lastCall' = Call("approve", sender, amount)
    /\ UNCHANGED <<contractVars, usdcBalance>>

\* transfer(THIS, amount) by a holder: tokens sent to the contract outside
\* a mint, which withdraw finds in balanceOf(address(this))
donate(sender, amount) ==
    LET call == Call("transfer", sender, amount)
    IN  /\ IF usdcBalance[sender] < amount
           THEN Revert(call, "ERC20: transfer failed")
           ELSE /\ usdcBalance' = Move(usdcBalance, sender, THIS, amount)
                /\ lastCall' = call
                /\ UNCHANGED <<contractVars, usdcAllowance>>

\* ------------------------------------------------------------------------
\* constructor
\* ------------------------------------------------------------------------
Funded(funds) ==
    /\ owner = Deployer
    /\ platformWallet \in {ZERO, "platform"}
    /\ birthdayPrice = InitialBirthdayPrice
    /\ natalPrice = InitialNatalPrice
    /\ birthdaysMinted = 0
    /\ natalsMinted = 0
    /\ nextTokenId = 0
    /\ lastWithdrawnTokenId = 0
    /\ orders = <<>>
    /\ tokenOwner = <<>>
    /\ usdcBalance = [h \in Holders |->
                        IF h = "alice" THEN funds ELSE 0]
    /\ usdcAllowance = [h \in Users |-> 0]
    /\ now = 0
    /\ lastCall = NoCall
    /\ ledger = <<>>
    /\ arweave = <<>>
    /\ lastResp = NoResp
    /\ cust = [step |-> "form", tier |-> BIRTHDAY, uri |-> ""]
    /\ creator = [step |-> "idle", tokenId |-> Undefined, uri |-> ""]
    /\ box = NoBox

Deployed == Funded(InitialFunds)

\* the production front ends talk to the API worker
Init == Deployed /\ apiBase = "worker"

\* ------------------------------------------------------------------------
\* mint
\* ------------------------------------------------------------------------
TokenIds == 0 .. (nextTokenId - 1)
\* totalOrders()
totalOrders == nextTokenId
Exists(tokenId) == tokenId \in TokenIds

\* _mintOrder, entered with the type counter already incremented
mintOrderError(sender, orderDataUri, price) ==
    IF orderDataUri = "" THEN "Order data URI required"
    ELSE IF ~CanTransferFrom(sender, price) THEN "ERC20: transfer failed"
    ELSE ""

\* _mintOrder past its guards: payment, token, Order record, return value
mintOrder(call, songType, orderDataUri, price) ==
    LET tokenId == nextTokenId
    IN  /\ usdcBalance' = Move(usdcBalance, call.sender, THIS, price)
        /\ usdcAllowance' = [usdcAllowance EXCEPT ![call.sender] = @ - price]
        /\ nextTokenId' = nextTokenId + 1
        /\ tokenOwner' = [t \in 0 .. tokenId |->
                            IF t = tokenId THEN call.sender
                            ELSE tokenOwner[t]]
        /\ orders' = [t \in 0 .. tokenId |->
                        IF t = tokenId
                        THEN [songType |-> songType,
                              orderDataUri |-> orderDataUri,
                              orderedBy |-> call.sender,
                              orderedAt |-> now,
                              pricePaid |-> price,
                              fulfilled |-> FALSE,
                              songUri |-> ""]
                        ELSE orders[t]]
        /\ lastCall' = [call EXCEPT !.ret = tokenId]
        /\ UNCHANGED <<owner, platformWallet, birthdayPrice, natalPrice,
                       lastWithdrawnTokenId>>

birthdaySoldOut_OffByOne == ~(birthdaysMinted <= BIRTHDAY_SUPPLY_LIMIT)

birthdaySoldOut == ~(birthdaysMinted < BIRTHDAY_SUPPLY_LIMIT)

\* one cap shared by the two types
natalSoldOut_SharedCap ==
    ~(birthdaysMinted + natalsMinted < NATAL_SUPPLY_LIMIT)

natalSoldOut == ~(natalsMinted < NATAL_SUPPLY_LIMIT)

mintBirthdaySong(sender, orderDataUri) ==
    LET call == Call("mintBirthdaySong", sender, BIRTHDAY)
        err == mintOrderError(sender, orderDataUri, birthdayPrice)
    IN  IF birthdaySoldOut
        THEN Revert(call, "Birthday songs sold out")
        ELSE IF err # ""
        THEN Revert(call, err)
        ELSE /\ birthdaysMinted' = birthdaysMinted + 1
             /\ UNCHANGED natalsMinted
             /\ mintOrder(call, BIRTHDAY, orderDataUri, birthdayPrice)

\* the natal mint counting against the birthday counter
mintNatalSong_CountsBirthday(sender, orderDataUri) ==
    LET call == Call("mintNatalSong", sender, NATAL)
        err == mintOrderError(sender, orderDataUri, natalPrice)
    IN  IF natalSoldOut
        THEN Revert(call, "Natal chart songs sold out")
        ELSE IF err # ""
        THEN Revert(call, err)
        ELSE /\ birthdaysMinted' = birthdaysMinted + 1
             /\ UNCHANGED natalsMinted
             /\ mintOrder(call, NATAL, orderDataUri, natalPrice)

mintNatalSong(sender, orderDataUri) ==
    LET call == Call("mintNatalSong", sender, NATAL)
        err == mintOrderError(sender, orderDataUri, natalPrice)
    IN  IF natalSoldOut
        THEN Revert(call, "Natal chart songs sold out")
        ELSE IF err # ""
        THEN Revert(call, err)
        ELSE /\ natalsMinted' = natalsMinted + 1
             /\ UNCHANGED birthdaysMinted
             /\ mintOrder(call, NATAL, orderDataUri, natalPrice)

\* ------------------------------------------------------------------------
\* fulfillOrder
\* ------------------------------------------------------------------------
fulfillOrderError_NoUriCheck(sender, tokenId, songUri) ==
    IF sender # owner THEN "OwnableUnauthorizedAccount"
    ELSE IF ~Exists(tokenId) THEN "Token does not exist"
    ELSE IF orders[tokenId].fulfilled THEN "Already fulfilled"
    ELSE ""

fulfillOrderError_NoFulfilledCheck(sender, tokenId, songUri) ==
    IF sender # owner THEN "OwnableUnauthorizedAccount"
    ELSE IF ~Exists(tokenId) THEN "Token does not exist"
    ELSE IF songUri = "" THEN "Song URI required"
    ELSE ""

fulfillOrderError_AllowsReplacement(sender, tokenId, songUri) ==
    IF sender # owner THEN "OwnableUnauthorizedAccount"
    ELSE IF ~Exists(tokenId) THEN "Token does not exist"
    ELSE IF orders[tokenId].fulfilled /\ orders[tokenId].songUri = songUri
    THEN "Already fulfilled"
    ELSE IF songUri = "" THEN "Song URI required"
    ELSE ""

fulfillOrderError(sender, tokenId, songUri) ==
    IF sender # owner THEN "OwnableUnauthorizedAccount"
    ELSE IF ~Exists(tokenId) THEN "Token does not exist"
    ELSE IF orders[tokenId].fulfilled THEN "Already fulfilled"
    ELSE IF songUri = "" THEN "Song URI required"
    ELSE ""

fulfillOrder(sender, tokenId, songUri) ==
    LET call == Call("fulfillOrder", sender, tokenId)
        err == fulfillOrderError(sender, tokenId, songUri)
    IN  /\ IF err # "" THEN Revert(call, err)
           ELSE /\ orders' = [orders EXCEPT ![tokenId].fulfilled = TRUE,
                                            ![tokenId].songUri = songUri]
                /\ lastCall' = call
                /\ UNCHANGED <<owner, platformWallet, birthdayPrice,
                               natalPrice, birthdaysMinted, natalsMinted,
                               nextTokenId, lastWithdrawnTokenId, tokenOwner,
                               usdcVars>>

\* ------------------------------------------------------------------------
\* setPrices / setPlatformWallet
\* ------------------------------------------------------------------------
setPrices_Retroactive(sender, newBirthdayPrice, newNatalPrice) ==
    LET call == Call("setPrices", sender, -1)
    IN  /\ IF sender # owner THEN Revert(call, "OwnableUnauthorizedAccount")
           ELSE /\ birthdayPrice' = newBirthdayPrice
                /\ natalPrice' = newNatalPrice
                /\ orders' = [t \in DOMAIN orders |->
                                [orders[t] EXCEPT !.pricePaid =
                                    IF orders[t].songType = 0
                                    THEN newBirthdayPrice
                                    ELSE newNatalPrice]]
                /\ lastCall' = call
                /\ UNCHANGED <<owner, platformWallet, birthdaysMinted,
                               natalsMinted, nextTokenId,
                               lastWithdrawnTokenId, tokenOwner, usdcVars>>

setPrices(sender, newBirthdayPrice, newNatalPrice) ==
    LET call == Call("setPrices", sender, -1)
    IN  /\ IF sender # owner THEN Revert(call, "OwnableUnauthorizedAccount")
           ELSE /\ birthdayPrice' = newBirthdayPrice
                /\ natalPrice' = newNatalPrice
                /\ lastCall' = call
                /\ UNCHANGED <<owner, platformWallet, birthdaysMinted,
                               natalsMinted, nextTokenId,
                               lastWithdrawnTokenId, orders, tokenOwner,
                               usdcVars>>

setPlatformWalletError_NoZeroCheck(sender, newWallet) ==
    IF sender # owner THEN "OwnableUnauthorizedAccount" ELSE ""

setPlatformWalletError(sender, newWallet) ==
    IF sender # owner THEN "OwnableUnauthorizedAccount"
    ELSE IF newWallet = ZERO THEN "Invalid platform wallet"
    ELSE ""

setPlatformWallet(sender, newWallet) ==
    LET call == Call("setPlatformWallet", sender, -1)
        err == setPlatformWalletError(sender, newWallet)
    IN  /\ IF err # "" THEN Revert(call, err)
           ELSE /\ platformWallet' = newWallet
                /\ lastCall' = call
                /\ UNCHANGED <<owner, birthdayPrice, natalPrice,
                               birthdaysMinted, natalsMinted, nextTokenId,
                               lastWithdrawnTokenId, orders, tokenOwner,
                               usdcVars>>

\* ------------------------------------------------------------------------
\* withdraw
\* ------------------------------------------------------------------------
\* newOrders = _nextTokenId - lastWithdrawnTokenId
newOrders == nextTokenId - lastWithdrawnTokenId

\* the fee charged once per withdrawal instead of once per new order
totalPlatformFee_PerWithdrawal(balance) ==
    IF PLATFORM_FEE > balance THEN balance ELSE PLATFORM_FEE

\* totalPlatformFee, capped at the balance
totalPlatformFee(balance) ==
    IF newOrders * PLATFORM_FEE > balance THEN balance
    ELSE newOrders * PLATFORM_FEE

creatorAmount(balance) == balance - totalPlatformFee(balance)

\* refused: the accounts the payment token refuses to pay at this moment
\* (a blacklisted or otherwise rejected recipient)
TransferFails(to, amount, refused) ==
    ~CanTransfer(to, amount) \/ to \in refused

withdrawError_AnyCaller(sender, refused) ==
    LET balance == usdcBalance[THIS]
    IN  IF ~(balance > 0) THEN "No funds to withdraw"
        ELSE IF /\ totalPlatformFee(balance) > 0
                /\ TransferFails(platformWallet, totalPlatformFee(balance),
                                 refused)
             THEN "ERC20: transfer failed"
        ELSE IF /\ creatorAmount(balance) > 0
                /\ TransferFails(owner, creatorAmount(balance), refused)
             THEN "ERC20: transfer failed"
        ELSE ""

withdrawError_NoBalanceCheck(sender, refused) ==
    LET balance == usdcBalance[THIS]
    IN  IF sender # owner THEN "OwnableUnauthorizedAccount"
        ELSE IF /\ totalPlatformFee(balance) > 0
                /\ TransferFails(platformWallet, totalPlatformFee(balance),
                                 refused)
             THEN "ERC20: transfer failed"
        ELSE IF /\ creatorAmount(balance) > 0
                /\ TransferFails(owner, creatorAmount(balance), refused)
             THEN "ERC20: transfer failed"
        ELSE ""

withdrawError(sender, refused) ==
    LET balance == usdcBalance[THIS]
    IN  IF sender # owner THEN "OwnableUnauthorizedAccount"
        ELSE IF ~(balance > 0) THEN "No funds to withdraw"
        ELSE IF /\ totalPlatformFee(balance) > 0
                /\ TransferFails(platformWallet, totalPlatformFee(balance),
                                 refused)
             THEN "ERC20: transfer failed"
        ELSE IF /\ creatorAmount(balance) > 0
                /\ TransferFails(owner, creatorAmount(balance), refused)
             THEN "ERC20: transfer failed"
        ELSE ""

withdrawWatermark_CollectedOnly ==
    lastWithdrawnTokenId
        + (totalPlatformFee(usdcBalance[THIS]) \div PLATFORM_FEE)

\* the watermark left where it was
withdrawWatermark_Stale == lastWithdrawnTokenId

\* the watermark written by withdraw
withdrawWatermark == nextTokenId

withdraw(sender, refused) ==
    LET call == Call("withdraw", sender, -1)
        err == withdrawError(sender, refused)
        balance == usdcBalance[THIS]
        fee == totalPlatformFee(balance)
        rest == creatorAmount(balance)
    IN  /\ IF err # "" THEN Revert(call, err)
           ELSE /\ lastWithdrawnTokenId' = withdrawWatermark
                /\ usdcBalance' =
                     Move(Move(usdcBalance, THIS, platformWallet, fee),
                          THIS, owner, rest)
                /\ lastCall' = [call EXCEPT !.toPlatform = fee,
                                            !.toOwner = rest]
                /\ UNCHANGED <<owner, platformWallet, birthdayPrice,
                               natalPrice, birthdaysMinted, natalsMinted,
                               nextTokenId, orders, tokenOwner,
                               usdcAllowance>>

\* ------------------------------------------------------------------------
\* getSupplyInfo
\* ------------------------------------------------------------------------
\* a - b in uint256 under Solidity 0.8: Undefined stands for the panic on
\* underflow
CheckedSub(a, b) == IF b > a THEN Undefined ELSE a - b

supplySoldOut_Late(minted, limit) == minted > limit

supplySoldOut(minted, limit) == minted >= limit

\* the values getSupplyInfo returns; ok is FALSE when a subtraction panics
getSupplyInfo ==
    LET birthdaysRemaining ==
            CheckedSub(BIRTHDAY_SUPPLY_LIMIT, birthdaysMinted)
        natalsRemaining == CheckedSub(NATAL_SUPPLY_LIMIT, natalsMinted)
        totalMinted == birthdaysMinted + natalsMinted
        totalRemaining == CheckedSub(TOTAL_SUPPLY_LIMIT, totalMinted)
    IN  [ok |-> Undefined \notin {birthdaysRemaining, natalsRemaining,
                                  totalRemaining},
         birthdaysMinted_ |-> birthdaysMinted,
         birthdaysRemaining |-> birthdaysRemaining,
         birthdayLimit |-> BIRTHDAY_SUPPLY_LIMIT,
         birthdaysSoldOut |->
             supplySoldOut(birthdaysMinted, BIRTHDAY_SUPPLY_LIMIT),
         natalsMinted_ |-> natalsMinted,
         natalsRemaining |-> natalsRemaining,
         natalLimit |-> NATAL_SUPPLY_LIMIT,
         natalsSoldOut |-> supplySoldOut(natalsMinted, NATAL_SUPPLY_LIMIT),
         totalMinted |-> totalMinted,
         totalRemaining |-> totalRemaining,
         totalLimit |-> TOTAL_SUPPLY_LIMIT]

\* a call of the view function: nothing is written
callGetSupplyInfo(sender) ==
    /\ lastCall' = [Call("getSupplyInfo", sender, -1)
                    EXCEPT !.ok = getSupplyInfo.ok,
                           !.error = IF getSupplyInfo.ok THEN ""
                                     ELSE "Panic(0x11)",
                           !.ret = getSupplyInfo.totalRemaining]
    /\ UNCHANGED chainVars

\* ------------------------------------------------------------------------
\* Inherited: Ownable.transferOwnership, ERC721.transferFrom
\* ------------------------------------------------------------------------
transferOwnership(sender, newOwner) ==
    LET call == Call("transferOwnership", sender, -1)
    IN  /\ IF sender # owner THEN Revert(call, "OwnableUnauthorizedAccount")
           ELSE IF newOwner = ZERO THEN Revert(call, "OwnableInvalidOwner")
           ELSE /\ owner' = newOwner
                /\ lastCall' = call
                /\ UNCHANGED <<platformWallet, birthdayPrice, natalPrice,
                               birthdaysMinted, natalsMinted, nextTokenId,
                               lastWithdrawnTokenId, orders, tokenOwner,
                               usdcVars>>

transferFrom(sender, to, tokenId) ==
    LET call == Call("transferFrom", sender, tokenId)
    IN  /\ IF ~Exists(tokenId) THEN Revert(call, "ERC721NonexistentToken")
           ELSE IF to = ZERO THEN Revert(call, "ERC721InvalidReceiver")
           ELSE IF tokenOwner[tokenId] # sender
           THEN Revert(call, "ERC721InsufficientApproval")
           ELSE /\ tokenOwner' = [tokenOwner EXCEPT ![tokenId] = to]
                /\ lastCall' = call
                /\ UNCHANGED <<owner, platformWallet, birthdayPrice,
                               natalPrice, birthdaysMinted, natalsMinted,
                               nextTokenId, lastWithdrawnTokenId, orders,
                               usdcVars>>

\* ------------------------------------------------------------------------
\* API worker: the order ledger (apps/api-worker)
\* ------------------------------------------------------------------------
\* JavaScript !x for a number that may be absent, and for a string
FalsyNum(x) == x = Undefined \/ x = 0
FalsyStr(x) == x = ""

\* status || 'pending'
StatusOrPending(status) == IF FalsyStr(status) THEN "pending" ELSE status

\* the order objects the order form builds, and the personal fields
\* (recipientName, birthDate, message, ...) each of them carries
PersonalData == [orderA |-> "Ana, 1990-01-01", orderB |-> "Bea, 1985-05-05"]
OrderObjects == DOMAIN PersonalData

\* JSON.stringify({ orderData, metadata }): the body api.uploadOrder posts
RequestBody(orderData) ==
    [orderA |-> "{orderData:orderA,metadata}",
     orderB |-> "{orderData:orderB,metadata}"][orderData]

\* orderData?.recipientName || null, and the other personal columns: the
\* fields are read at the top level of orderData, "" is SQL NULL
PersonalColumns(orderData) ==
    IF orderData \in OrderObjects THEN PersonalData[orderData] ELSE ""

\* the personal fields anyone holding the JSON text can read in it
ReadableIn(text) ==
    {PersonalData[o] : o \in {x \in OrderObjects :
                                 text = x \/ text = RequestBody(x)}}

\* INSERT INTO orders (...) VALUES (...): a fresh id, no key but the id
InsertOrder(tokenId, arweaveId, status, orderData) ==
    Append(ledger, [id |-> Len(ledger) + 1,
                    token_id |-> tokenId,
                    arweave_id |-> arweaveId,
                    song_arweave_id |-> "",
                    status |-> StatusOrPending(status),
                    created_at |-> now,
                    fulfilled_at |-> NullTime,
                    recipient_name |-> PersonalColumns(orderData)])

\* UPDATE orders SET song_arweave_id, status, fulfilled_at WHERE token_id = ?
UpdateFulfilled(tokenId, songArweaveId) ==
    [i \in 1 .. Len(ledger) |->
        IF ledger[i].token_id = tokenId
        THEN [ledger[i] EXCEPT !.song_arweave_id = songArweaveId,
                               !.status = "fulfilled",
                               !.fulfilled_at = now]
        ELSE ledger[i]]

\* the ledger after POST /api/orders/metadata, and the response
metadataStatus(tokenId, arweaveId, dbUp) ==
    IF FalsyNum(tokenId) \/ FalsyStr(arweaveId) THEN 400
    ELSE IF ~dbUp THEN 500
    ELSE 200

metadataLedger(tokenId, arweaveId, status, orderData, dbUp) ==
    IF metadataStatus(tokenId, arweaveId, dbUp) = 200
    THEN InsertOrder(tokenId, arweaveId, status, orderData)
    ELSE ledger

\* POST /api/orders/metadata  (recordCreated)
postOrdersMetadata(tokenId, arweaveId, status, orderData, dbUp) ==
    LET code == metadataStatus(tokenId, arweaveId, dbUp)
    IN  /\ ledger' = metadataLedger(tokenId, arweaveId, status, orderData,
                                    dbUp)
        /\ lastResp' =
             [Resp("postOrdersMetadata", code,
                   IF code = 400 THEN "Missing required fields"
                   ELSE IF code = 500 THEN "Failed to store metadata"
                   ELSE "")
              EXCEPT !.tokenId = tokenId, !.arweaveId = arweaveId]
        /\ UNCHANGED arweave

\* the ledger after POST /api/orders/fulfill, and the response
fulfillStatus(tokenId, songArweaveId, dbUp) ==
    IF FalsyNum(tokenId) \/ FalsyStr(songArweaveId) THEN 400
    ELSE IF ~dbUp THEN 500
    ELSE 200

fulfillLedger(tokenId, songArweaveId, dbUp) ==
    IF fulfillStatus(tokenId, songArweaveId, dbUp) = 200
    THEN UpdateFulfilled(tokenId, songArweaveId)
    ELSE ledger

\* POST /api/orders/fulfill  (recordFulfilled)
postOrdersFulfill(tokenId, songArweaveId, dbUp) ==
    LET code == fulfillStatus(tokenId, songArweaveId, dbUp)
    IN  /\ ledger' = fulfillLedger(tokenId, songArweaveId, dbUp)
        /\ lastResp' =
             [Resp("postOrdersFulfill", code,
                   IF code = 400 THEN "Missing required fields"
                   ELSE IF code = 500 THEN "Failed to update order status"
                   ELSE "")
              EXCEPT !.tokenId = tokenId, !.arweaveId = songArweaveId]
        /\ UNCHANGED arweave

\* fetch(`https://arweave.net/${id}`)
Stored(id) == \E i \in 1 .. Len(arweave) : arweave[i].id = id
Content(id) == (CHOOSE i \in 1 .. Len(arweave) : arweave[i].id = id)

\* SELECT song_arweave_id, status FROM orders WHERE token_id = ?
RowsOf(tokenId) == {i \in 1 .. Len(ledger) : ledger[i].token_id = tokenId}

\* the response of GET /api/songs/:tokenId/:userAddress when the query
\* returns row i first
songResponse(tokenId, userAddress, i) ==
    LET order == ledger[i]
    IN  IF FalsyStr(order.song_arweave_id)
        THEN Resp("getSong", 404, "Song not yet uploaded")
        ELSE IF order.status # "fulfilled"
        THEN Resp("getSong", 404, "Song not yet ready")
        ELSE IF ~Stored(order.song_arweave_id)
        THEN Resp("getSong", 500, "Failed to fetch song")
        ELSE [Resp("getSong", 200, "")
              EXCEPT !.songData = arweave[Content(order.song_arweave_id)].data,
                     !.arweaveId = order.song_arweave_id]

\* GET /api/songs/:tokenId/:userAddress
getSong(tokenId, userAddress) ==
    /\ \/ /\ RowsOf(tokenId) = {}
          /\ lastResp' = [Resp("getSong", 404, "Order not found")
                          EXCEPT !.tokenId = tokenId, !.user = userAddress]
       \/ \E i \in RowsOf(tokenId) :
            lastResp' = [songResponse(tokenId, userAddress, i)
                         EXCEPT !.tokenId = tokenId, !.user = userAddress]
    /\ UNCHANGED gatewayVars

\* GET /api/orders: SELECT * FROM orders, every column of every row, to
\* whoever asks; the response is modelled as the set of rows returned
getOrders(caller, dbUp) ==
    /\ lastResp' =
         IF ~dbUp
         THEN [Resp("getOrders", 500, "Failed to list orders")
               EXCEPT !.user = caller]
         ELSE [Resp("getOrders", 200, "")
               EXCEPT !.user = caller,
                      !.orders = {ledger[i] : i \in 1 .. Len(ledger)}]
    /\ UNCHANGED gatewayVars

\* ------------------------------------------------------------------------
\* Upload service (apps/ardrive-service)
\* ------------------------------------------------------------------------
\* Date.now(): milliseconds since 1970, above every token id the contract
\* can allocate
DateNow == TOTAL_SUPPLY_LIMIT + 1 + now

\* metadata?.tokenId || Date.now()
OrderTokenId(metaTokenId) ==
    IF FalsyNum(metaTokenId) THEN DateNow ELSE metaTokenId

\* the identifier turbo.uploadFile returns for the next item
NextTxId == TxIds[Len(arweave) + 1]

\* turbo.uploadFile with the tags Content-Kind and Token-Id
Upload(kind, data, tokenId) ==
    Append(arweave, [id |-> NextTxId, kind |-> kind, data |-> data,
                     tokenTag |-> tokenId])

\* `ardrive://${id}`
ArdriveUri(id) ==
    [tx1 |-> "ardrive://tx1", tx2 |-> "ardrive://tx2",
     tx3 |-> "ardrive://tx3", tx4 |-> "ardrive://tx4",
     tx5 |-> "ardrive://tx5", tx6 |-> "ardrive://tx6"][id]

ordersUploadStatus(orderData, turboUp) ==
    IF FalsyStr(orderData) THEN 400
    ELSE IF ~turboUp THEN 500
    ELSE 200

\* POST /api/orders/upload of the upload service: response, content store
\* and ledger after it.  mirror: CLOUDFLARE_WORKER_URL is set and the call to
\* the worker's /api/orders/metadata gets through
ordersUploadResp(orderData, metaTokenId, turboUp) ==
    LET code == ordersUploadStatus(orderData, turboUp)
    IN  IF code = 400
        THEN Resp("ordersUpload", 400, "Missing orderData in request body")
        ELSE IF code = 500
        THEN Resp("ordersUpload", 500, "Failed to upload order")
        ELSE [Resp("ordersUpload", 200, "")
              EXCEPT !.arweaveId = NextTxId,
                     !.tokenId = OrderTokenId(metaTokenId)]

ordersUploadArweave(orderData, metaTokenId, turboUp) ==
    IF ordersUploadStatus(orderData, turboUp) = 200
    THEN Upload("order-data", orderData, OrderTokenId(metaTokenId))
    ELSE arweave

ordersUploadLedger(orderData, metaTokenId, turboUp, mirror, dbUp) ==
    IF ordersUploadStatus(orderData, turboUp) = 200 /\ mirror
    THEN metadataLedger(OrderTokenId(metaTokenId), NextTxId, "pending",
                        orderData, dbUp)
    ELSE ledger

\* the mirror call awaited outside its try block: its failure reaches the
\* outer catch
ordersUpload_MirrorFatal(orderData, metaTokenId, turboUp, mirror, dbUp) ==
    /\ lastResp' =
         IF ordersUploadStatus(orderData, turboUp) = 200 /\ ~mirror
         THEN Resp("ordersUpload", 500, "Failed to upload order")
         ELSE ordersUploadResp(orderData, metaTokenId, turboUp)
    /\ arweave' = ordersUploadArweave(orderData, metaTokenId, turboUp)
    /\ ledger' = ordersUploadLedger(orderData, metaTokenId, turboUp, mirror,
                                    dbUp)

ordersUpload(orderData, metaTokenId, turboUp, mirror, dbUp) ==
    /\ lastResp' = ordersUploadResp(orderData, metaTokenId, turboUp)
    /\ arweave' = ordersUploadArweave(orderData, metaTokenId, turboUp)
    /\ ledger' = ordersUploadLedger(orderData, metaTokenId, turboUp, mirror,
                                    dbUp)

songsUploadStatus(songData, tokenId, turboUp) ==
    IF FalsyStr(songData) THEN 400
    ELSE IF FalsyNum(tokenId) THEN 400
    ELSE IF ~turboUp THEN 500
    ELSE 200

\* POST /api/songs/upload of the upload service
songsUploadResp(songData, tokenId, turboUp) ==
    LET code == songsUploadStatus(songData, tokenId, turboUp)
    IN  IF code = 200
        THEN [Resp("songsUpload", 200, "")
              EXCEPT !.arweaveId = NextTxId, !.tokenId = tokenId]
        ELSE [Resp("songsUpload", code,
                   IF FalsyStr(songData)
                   THEN "Missing songData in request body"
                   ELSE IF FalsyNum(tokenId)
                   THEN "Missing tokenId in request body"
                   ELSE "Failed to upload song")
              EXCEPT !.tokenId = tokenId]

songsUploadArweave(songData, tokenId, turboUp) ==
    IF songsUploadStatus(songData, tokenId, turboUp) = 200
    THEN Upload("song-file", songData, tokenId)
    ELSE arweave

songsUploadLedger(songData, tokenId, turboUp, mirror, dbUp) ==
    IF songsUploadStatus(songData, tokenId, turboUp) = 200 /\ mirror
    THEN fulfillLedger(tokenId, NextTxId, dbUp)
    ELSE ledger

songsUpload(songData, tokenId, turboUp, mirror, dbUp) ==
    /\ lastResp' = songsUploadResp(songData, tokenId, turboUp)
    /\ arweave' = songsUploadArweave(songData, tokenId, turboUp)
    /\ ledger' = songsUploadLedger(songData, tokenId, turboUp, mirror, dbUp)

\* ------------------------------------------------------------------------
\* API worker: the upload proxies
\* ------------------------------------------------------------------------
\* POST /api/orders/upload of the worker: forwards { orderData: <body> }
\* without metadata; a service error becomes a 500
workerOrdersUploadResp(body, turboUp) ==
    LET r == ordersUploadResp(body, Undefined, turboUp)
    IN  IF r.status # 200
        THEN Resp("workerOrdersUpload", 500, "Failed to upload order")
        ELSE [r EXCEPT !.op = "workerOrdersUpload"]

workerOrdersUpload(body, turboUp, mirror, dbUp) ==
    /\ lastResp' = workerOrdersUploadResp(body, turboUp)
    /\ arweave' = ordersUploadArweave(body, Undefined, turboUp)
    /\ ledger' = ordersUploadLedger(body, Undefined, turboUp, mirror, dbUp)

\* POST /api/songs/upload of the worker: reads tokenId and songBase64
workerSongsUploadResp(tokenId, songBase64, turboUp) ==
    LET r == songsUploadResp(songBase64, tokenId, turboUp)
    IN  IF FalsyNum(tokenId) \/ FalsyStr(songBase64)
        THEN [Resp("workerSongsUpload", 400, "Missing tokenId or songBase64")
              EXCEPT !.tokenId = tokenId]
        ELSE IF r.status # 200
        THEN [Resp("workerSongsUpload", 500, "Failed to upload song")
              EXCEPT !.tokenId = tokenId]
        ELSE [r EXCEPT !.op = "workerSongsUpload"]

workerSongsUpload(tokenId, songBase64, turboUp, mirror, dbUp) ==
    /\ lastResp' = workerSongsUploadResp(tokenId, songBase64, turboUp)
    /\ arweave' = songsUploadArweave(songBase64, tokenId, turboUp)
    /\ ledger' = songsUploadLedger(songBase64, tokenId, turboUp, mirror, dbUp)

\* ------------------------------------------------------------------------
\* API worker: fetching by content identifier
\* ------------------------------------------------------------------------
\* the routes the upload service defines
ServiceRoutes == {"GET /", "GET /api/balance", "POST /api/orders/upload",
                  "POST /api/songs/upload"}

\* the upload service's answer to GET /api/orders/<id>: Express answers 404
\* to a request no route matches
railwayGetOrderStatus(arweaveId) ==
    IF "GET /api/orders/:arweaveId" \in ServiceRoutes /\ Stored(arweaveId)
    THEN 200 ELSE 404

\* GET /api/orders/:arweaveId of the worker: relays the upload service
getOrder(arweaveId) ==
    /\ lastResp' =
         IF railwayGetOrderStatus(arweaveId) # 200
         THEN [Resp("getOrder", 500,
                    "Failed to fetch order from Railway service")
               EXCEPT !.arweaveId = arweaveId]
         ELSE [Resp("getOrder", 200, "")
               EXCEPT !.arweaveId = arweaveId,
                      !.songData = arweave[Content(arweaveId)].data]
    /\ UNCHANGED gatewayVars

\* GET /api/songs/:arweaveId of the worker: fetches arweave.net/<id> and
\* returns the text
getSongLegacy(arweaveId) ==
    /\ lastResp' =
         IF ~Stored(arweaveId)
         THEN [Resp("getSongLegacy", 500, "Failed to fetch song")
               EXCEPT !.arweaveId = arweaveId]
         ELSE [Resp("getSongLegacy", 200, "")
               EXCEPT !.arweaveId = arweaveId,
                      !.songData = arweave[Content(arweaveId)].data]
    /\ UNCHANGED gatewayVars

\* ------------------------------------------------------------------------
\* Customer order form (OrderForm: handleSubmit, encryptAndUpload, doMint)
\* ------------------------------------------------------------------------
Customer == "alice"
Price(tier) == IF tier = BIRTHDAY THEN birthdayPrice ELSE natalPrice
SoldOut(tier) == IF tier = BIRTHDAY THEN birthdaySoldOut ELSE natalSoldOut

\* api.uploadOrder(orderData): the request the configured API base serves
uploadOrderResp(orderData, turboUp) ==
    IF apiBase = "worker" THEN workerOrdersUploadResp(orderData, turboUp)
    ELSE ordersUploadResp(orderData, Undefined, turboUp)

\* what the upload service receives as orderData: the worker forwards the
\* whole body it was sent as { orderData: <body> }
uploadOrderBody(orderData) ==
    IF apiBase = "worker" THEN RequestBody(orderData) ELSE orderData

\* encryptAndUpload: the URI of the uploaded order, or the mock URI of the
\* catch branch
encryptAndUpload(resp) ==
    IF resp.status = 200 THEN ArdriveUri(resp.arweaveId)
    ELSE "mock://order"

\* handleSubmit past its form checks: upload, then approve or mint
handleSubmit(tier, turboUp, mirror, dbUp) ==
    LET resp == uploadOrderResp("orderA", turboUp)
        body == uploadOrderBody("orderA")
    IN  /\ cust.step = "form"
        /\ ~SoldOut(tier)
        /\ usdcBalance[Customer] >= Price(tier)
        /\ Len(arweave) < Len(TxIds)
        /\ lastResp' = resp
        /\ arweave' = ordersUploadArweave(body, Undefined, turboUp)
        /\ ledger' = ordersUploadLedger(body, Undefined, turboUp, mirror,
                                        dbUp)
        /\ cust' = [step |-> IF usdcAllowance[Customer] >= Price(tier)
                             THEN "mint" ELSE "approve",
                    tier |-> tier,
                    uri |-> encryptAndUpload(resp)]
        /\ lastCall' = NoCall
        /\ UNCHANGED <<chainVars, now, apiBase, creator, box>>

\* the approval confirms; the effect on isApproveConfirmed calls doMint
approveUSDC ==
    /\ cust.step = "approve"
    /\ approve(Customer, Price(cust.tier))
    /\ cust' = [cust EXCEPT !.step = "mint"]
    /\ lastResp' = NoResp
    /\ UNCHANGED <<now, gatewayVars, apiBase, creator, box>>

\* the mint transaction is mined
mintNFT ==
    /\ cust.step = "mint"
    /\ IF cust.tier = BIRTHDAY
       THEN mintBirthdaySong(Customer, cust.uri)
       ELSE mintNatalSong(Customer, cust.uri)
    /\ cust' = [cust EXCEPT !.step = "form"]
    /\ lastResp' = NoResp
    /\ UNCHANGED <<now, gatewayVars, apiBase, creator, box>>

\* ------------------------------------------------------------------------
\* Creator dashboard (handleUploadAndFulfill)
\* ------------------------------------------------------------------------
\* api.uploadSong(tokenId, songBase64) posts { songData, tokenId }: the
\* worker finds no songBase64 in that body
uploadSongResp(tokenId, song, turboUp) ==
    IF apiBase = "worker" THEN workerSongsUploadResp(tokenId, "", turboUp)
    ELSE songsUploadResp(song, tokenId, turboUp)

uploadSongData(song) == IF apiBase = "worker" THEN "" ELSE song

handleUploadAndFulfill(tokenId, turboUp, mirror, dbUp) ==
    LET resp == uploadSongResp(tokenId, "mp3", turboUp)
        song == uploadSongData("mp3")
    IN  /\ creator.step = "idle"
        /\ Exists(tokenId)
        /\ ~orders[tokenId].fulfilled
        /\ Len(arweave) < Len(TxIds)
        /\ lastResp' = resp
        /\ arweave' = songsUploadArweave(song, tokenId, turboUp)
        /\ ledger' = songsUploadLedger(song, tokenId, turboUp, mirror, dbUp)
        /\ creator' = IF resp.status = 200
                      THEN [step |-> "fulfilling", tokenId |-> tokenId,
                            uri |-> ArdriveUri(resp.arweaveId)]
                      ELSE [step |-> "idle", tokenId |-> tokenId,
                            uri |-> ""]
        /\ lastCall' = NoCall
        /\ UNCHANGED <<chainVars, now, apiBase, cust, box>>

\* the fulfillOrder transaction of the dashboard is mined
fulfillTx ==
    /\ creator.step = "fulfilling"
    /\ fulfillOrder(owner, creator.tokenId, creator.uri)
    /\ creator' = [creator EXCEPT !.step = "idle"]
    /\ lastResp' = NoResp
    /\ UNCHANGED <<now, gatewayVars, apiBase, cust, box>>

\* ------------------------------------------------------------------------
\* Encryption helper (packages/encryption)
\* ------------------------------------------------------------------------
\* bytes: a text as it is, or salt, iv and the AES-GCM ciphertext of a text
\* under the key PBKDF2 derives from a password
PlainBytes(text) == [kind |-> "plain", text |-> text, key |-> ""]
SealedBytes(text, password) ==
    [kind |-> "gcm", text |-> text, key |-> password]

\* btoa / atob
Btoa(bytes) == <<"base64", bytes>>
Atob(b64) == b64[2]

\* a byte string read as text: a plain text reads as itself, ciphertext as
\* binary noise
BinaryString(bytes) ==
    IF bytes.kind = "plain" THEN bytes.text ELSE "(binary)"

\* crypto.subtle.decrypt: the text when the bytes are a ciphertext under
\* the key of this password; throws otherwise (ok = FALSE)
subtleDecrypt(bytes, password) ==
    IF bytes.kind = "gcm" /\ bytes.key = password
    THEN [ok |-> TRUE, text |-> bytes.text]
    ELSE [ok |-> FALSE, text |-> ""]

\* encrypt(data, password); failed: Web Crypto is missing or something in
\* the try block throws, and the fallback returns btoa(data)
encrypt(data, password, failed) ==
    IF failed THEN Btoa(PlainBytes(data))
    ELSE Btoa(SealedBytes(data, password))

\* decrypt(encryptedData, password); subtle: Web Crypto is there.  Without
\* it, and when decryption throws, the fallback returns atob(encryptedData)
decrypt(encryptedData, password, subtle) ==
    LET bytes == Atob(encryptedData)
        plain == subtleDecrypt(bytes, password)
    IN  IF subtle /\ plain.ok THEN plain.text
        ELSE BinaryString(bytes)

Passwords == {"master", "token-1", "guess"}
Plaintexts == {"", "orderA", "mp3"}

encryptCall(data, password, failed) ==
    /\ box.stage = "empty"
    /\ box' = [NoBox EXCEPT !.stage = "encrypted", !.data = data,
                            !.password = password, !.failed = failed,
                            !.cipher = encrypt(data, password, failed)]
    /\ UNCHANGED <<chainVars, now, lastCall, gatewayVars, lastResp,
                   apiBase, cust, creator>>

decryptCall(password, subtle) ==
    /\ box.stage = "encrypted"
    /\ box' = [box EXCEPT !.stage = "decrypted", !.key = password,
                          !.subtle = subtle,
                          !.out = decrypt(box.cipher, password, subtle)]
    /\ UNCHANGED <<chainVars, now, lastCall, gatewayVars, lastResp,
                   apiBase, cust, creator>>

discard ==
    /\ box.stage = "decrypted"
    /\ box' = NoBox
    /\ UNCHANGED <<chainVars, now, lastCall, gatewayVars, lastResp,
                   apiBase, cust, creator>>

\* ------------------------------------------------------------------------
\* Specifications
\* ------------------------------------------------------------------------
Idle == lastCall = NoCall /\ lastResp = NoResp

\* one transaction: any account sends it, its receipt is recorded
Tx(call) ==
    /\ Idle
    /\ call
    /\ UNCHANGED <<now, gatewayVars, lastResp, flowVars>>

\* one HTTP request, its response is recorded
Req(handler) ==
    /\ Idle
    /\ handler
    /\ UNCHANGED <<chainVars, now, lastCall, flowVars>>

\* the receipt or response is read before the next call is made
Acknowledge ==
    /\ ~Idle
    /\ lastCall' = NoCall
    /\ lastResp' = NoResp
    /\ UNCHANGED <<chainVars, now, gatewayVars, flowVars>>

\* the clock advances between calls
Tick ==
    /\ Idle
    /\ now < MaxTime
    /\ now' = now + 1
    /\ UNCHANGED <<chainVars, lastCall, gatewayVars, lastResp, flowVars>>

\* The contract on its chain
Next ==
    \/ \E u \in Minters, uri \in OrderUris : Tx(mintBirthdaySong(u, uri))
    \/ \E u \in Minters, uri \in OrderUris : Tx(mintNatalSong(u, uri))
    \/ \E u \in Admins, t \in 0 .. nextTokenId, uri \in SongUris :
          Tx(fulfillOrder(u, t, uri))
    \/ \E u \in Admins, p \in PriceInputs : Tx(setPrices(u, p[1], p[2]))
    \/ \E u \in Admins, w \in Recipients : Tx(setPlatformWallet(u, w))
    \/ \E u \in Admins, refused \in Refusals : Tx(withdraw(u, refused))
    \/ \E u \in Admins, o \in Recipients : Tx(transferOwnership(u, o))
    \/ \E u \in Minters : Tx(approve(u, InitialFunds))
    \/ \E u \in Minters : Tx(callGetSupplyInfo(u))
    \/ Acknowledge

Spec == Init /\ [][Next]_vars

\* The money side of the contract: mints pay in, a holder may send tokens
\* to the emptied contract directly, the owner withdraws
FeeNext ==
    \/ \E u \in Minters : Tx(approve(u, InitialFunds))
    \/ \E u \in Minters : Tx(mintBirthdaySong(u, "ardrive://tx1"))
    \/ \E u \in Minters : Tx(mintNatalSong(u, "ardrive://tx1"))
    \/ \E p \in PriceInputs : Tx(setPrices(owner, p[1], p[2]))
    \/ Tx(setPlatformWallet(owner, "platform"))
    \/ \E u \in Minters :
          /\ usdcBalance[THIS] = 0
          /\ Tx(donate(u, Donation))
    \/ \E u \in Admins : Tx(withdraw(u, {}))
    \/ Acknowledge

FeeSpec == Init /\ [][FeeNext]_vars

\* The life of an order: the owner runs the contract while the buyer mints,
\* hands tokens on, and time passes
OrderNext ==
    \/ \E u \in Minters : Tx(approve(u, InitialFunds))
    \/ \E u \in Minters : Tx(mintBirthdaySong(u, "ardrive://tx1"))
    \/ \E u \in Minters : Tx(mintNatalSong(u, "ardrive://tx1"))
    \/ \E t \in TokenIds : Tx(fulfillOrder(owner, t, "ardrive://tx2"))
    \/ \E p \in PriceInputs : Tx(setPrices(owner, p[1], p[2]))
    \/ Tx(setPlatformWallet(owner, "platform"))
    \/ Tx(withdraw(owner, {}))
    \/ \E u \in Minters, t \in TokenIds : Tx(transferFrom(u, "platform", t))
    \/ \E u \in Minters : Tx(callGetSupplyInfo(u))
    \/ Tick
    \/ Acknowledge

OrderSpec == Init /\ [][OrderNext]_vars

\* The ledger on its own: the two recording routes called by anyone, any
\* number of times, while the clock runs
LedgerTokenIds == {Undefined} \cup (0 .. TOTAL_SUPPLY_LIMIT)
LedgerContentIds == {"", "tx1", "tx2"}
LedgerStatuses == {"", "fulfilled"}

LedgerNext ==
    \/ \E t \in LedgerTokenIds, a \in LedgerContentIds,
          st \in LedgerStatuses, dbUp \in BOOLEAN :
          /\ Len(ledger) < MaxRows
          /\ Req(postOrdersMetadata(t, a, st, "", dbUp))
    \/ \E t \in LedgerTokenIds, a \in LedgerContentIds, dbUp \in BOOLEAN :
          Req(postOrdersFulfill(t, a, dbUp))
    \/ Tick
    \/ Acknowledge

LedgerSpec == Init /\ [][LedgerNext]_vars

\* The gateway next to the contract: tokens are bought, fulfilled and
\* handed on while orders are recorded, songs uploaded and downloads asked
\* for by any address
GatewayTokenIds == 0 .. TOTAL_SUPPLY_LIMIT

GatewayNext ==
    \/ \E u \in Minters : Tx(approve(u, InitialFunds))
    \/ \E u \in Minters : Tx(mintBirthdaySong(u, "ardrive://tx1"))
    \/ \E u \in Minters : Tx(mintNatalSong(u, "ardrive://tx1"))
    \/ \E t \in TokenIds : Tx(fulfillOrder(owner, t, "ardrive://tx1"))
    \/ \E u \in Minters, t \in TokenIds : Tx(transferFrom(u, "platform", t))
    \/ \E t \in GatewayTokenIds :
          /\ Len(ledger) < MaxRows
          /\ Req(postOrdersMetadata(t, "tx1", "pending", "", TRUE))
    \/ \E t \in GatewayTokenIds, mirror \in BOOLEAN :
          /\ Len(arweave) < MaxUploads
          /\ Req(songsUpload("mp3", t, TRUE, mirror, TRUE))
    \/ \E t \in GatewayTokenIds, u \in Users : Req(getSong(t, u))
    \/ Acknowledge

GatewayInit == Funded(AmpleFunds) /\ apiBase = "worker"

GatewaySpec == GatewayInit /\ [][GatewayNext]_vars

\* Uploads through the worker and fetches by the identifier they returned
RoundTripBodies == {"", "orderA", "orderB"}
RoundTripSongs == {"", "mp3"}
RoundTripIds == {TxIds[i] : i \in 1 .. MaxUploads}

RoundTripNext ==
    \/ \E body \in RoundTripBodies, turboUp, mirror \in BOOLEAN :
          /\ Len(arweave) < MaxUploads
          /\ Len(ledger) < MaxRows
          /\ Req(workerOrdersUpload(body, turboUp, mirror, TRUE))
    \/ \E t \in GatewayTokenIds, song \in RoundTripSongs,
          turboUp, mirror \in BOOLEAN :
          /\ Len(arweave) < MaxUploads
          /\ Req(workerSongsUpload(t, song, turboUp, mirror, TRUE))
    \/ \E id \in RoundTripIds : Req(getOrder(id))
    \/ \E id \in RoundTripIds : Req(getSongLegacy(id))
    \/ Acknowledge

RoundTripSpec == Init /\ [][RoundTripNext]_vars

\* The upload service and the ledger routes it mirrors to, called directly:
\* the content store up or down, the mirror call getting through or not,
\* the database up or down
ServiceTokenIds == {Undefined, 0, 1}
ServiceBodies == {"", "orderA"}
ServiceSongs == {"", "mp3"}

ServiceNext ==
    \/ \E orderData \in ServiceBodies, t \in ServiceTokenIds,
          turboUp, mirror, dbUp \in BOOLEAN :
          /\ Len(arweave) < MaxUploads
          /\ Len(ledger) < MaxRows
          /\ Req(ordersUpload(orderData, t, turboUp, mirror, dbUp))
    \/ \E songData \in ServiceSongs, t \in ServiceTokenIds,
          turboUp, mirror, dbUp \in BOOLEAN :
          /\ Len(arweave) < MaxUploads
          /\ Req(songsUpload(songData, t, turboUp, mirror, dbUp))
    \/ \E t \in ServiceTokenIds :
          /\ Len(ledger) < MaxRows
          /\ Req(postOrdersMetadata(t, "tx1", "pending", "", TRUE))
    \/ \E t \in ServiceTokenIds : Req(postOrdersFulfill(t, "tx2", TRUE))
    \/ Acknowledge

ServiceSpec == Init /\ [][ServiceNext]_vars

\* The order flow end to end: the order form and the dashboard against
\* either API base, every upload and every mirror call getting through
FlowInit == Funded(AmpleFunds) /\ apiBase \in {"worker", "service"}

FlowNext ==
    \/ \E tier \in SongTypes : handleSubmit(tier, TRUE, TRUE, TRUE)
    \/ approveUSDC
    \/ mintNFT
    \/ \E t \in TokenIds : handleUploadAndFulfill(t, TRUE, TRUE, TRUE)
    \/ fulfillTx

FlowSpec ==
    /\ FlowInit
    /\ [][FlowNext]_vars
    /\ WF_vars(\E tier \in SongTypes : handleSubmit(tier, TRUE, TRUE, TRUE))
    /\ WF_vars(approveUSDC)
    /\ WF_vars(mintNFT)
    /\ \A t \in 0 .. TOTAL_SUPPLY_LIMIT - 1 :
          WF_vars(handleUploadAndFulfill(t, TRUE, TRUE, TRUE))
    /\ WF_vars(fulfillTx)

\* The order form on its own, against either API base: the upload of the
\* order may fail, the mirror call may not get through
SubmitNext ==
    \/ \E tier \in SongTypes, turboUp, mirror \in BOOLEAN :
          handleSubmit(tier, turboUp, mirror, TRUE)
    \/ approveUSDC
    \/ mintNFT

SubmitSpec == FlowInit /\ [][SubmitNext]_vars

\* Orders placed through the order form, against either API base, and the
\* reading routes of the worker called by any address
PrivacyNext ==
    \/ \E tier \in SongTypes, mirror \in BOOLEAN :
          /\ Idle
          /\ Len(arweave) < MaxUploads
          /\ handleSubmit(tier, TRUE, mirror, TRUE)
    \/ approveUSDC
    \/ mintNFT
    \/ \E u \in Users, dbUp \in BOOLEAN : Req(getOrders(u, dbUp))
    \/ \E id \in RoundTripIds : Req(getOrder(id))
    \/ \E id \in RoundTripIds : Req(getSongLegacy(id))
    \/ Acknowledge

PrivacySpec == FlowInit /\ [][PrivacyNext]_vars

\* Orders bought through the order form, recorded in the ledger under their
\* token id, and fulfilled from the dashboard; the fulfillOrder transaction
\* follows the song upload at some later moment, or never
FulfilNext ==
    \/ \E tier \in SongTypes : Idle /\ handleSubmit(tier, TRUE, TRUE, TRUE)
    \/ approveUSDC
    \/ mintNFT
    \/ \E t \in TokenIds :
          /\ RowsOf(t) = {}
          /\ Req(postOrdersMetadata(t, "tx1", "pending", "", TRUE))
    \/ \E t \in TokenIds, mirror \in BOOLEAN :
          Idle /\ handleUploadAndFulfill(t, TRUE, mirror, TRUE)
    \/ fulfillTx
    \/ Acknowledge

FulfilSpec == FlowInit /\ [][FulfilNext]_vars

\* The first token the contract allocates, id 0, presented to the upload
\* service and to the ledger routes
TokenZeroNext ==
    \/ \E orderData \in ServiceBodies, turboUp, mirror, dbUp \in BOOLEAN :
          /\ Len(arweave) < MaxUploads
          /\ Len(ledger) < MaxRows
          /\ Req(ordersUpload(orderData, 0, turboUp, mirror, dbUp))
    \/ \E songData \in ServiceSongs, turboUp, mirror, dbUp \in BOOLEAN :
          /\ Len(arweave) < MaxUploads
          /\ Req(songsUpload(songData, 0, turboUp, mirror, dbUp))
    \/ \E a \in LedgerContentIds, dbUp \in BOOLEAN :
          /\ Len(ledger) < MaxRows
          /\ Req(postOrdersMetadata(0, a, "pending", "", dbUp))
    \/ \E a \in LedgerContentIds, dbUp \in BOOLEAN :
          Req(postOrdersFulfill(0, a, dbUp))
    \/ Acknowledge

TokenZeroSpec == Init /\ [][TokenZeroNext]_vars

\* The encryption helper: any text under any password, encrypted on the
\* normal path or the fallback, then decrypted under any password
CryptoNext ==
    \/ \E data \in Plaintexts, p \in Passwords, failed \in BOOLEAN :
          encryptCall(data, p, failed)
    \/ \E q \in Passwords, subtle \in BOOLEAN : decryptCall(q, subtle)
    \/ discard

CryptoSpec == Init /\ [][CryptoNext]_vars

\* ------------------------------------------------------------------------
\* Properties of the contract
\* ------------------------------------------------------------------------
IsCall(op) == lastCall'.op = op
Succeeds == lastCall'.ok
FailsWith(err) == ~lastCall'.ok /\ lastCall'.error = err

\* C1: in every reachable state, every minted token's order has
\* fulfilled = TRUE exactly when its songUri is non-empty.
C1_FulfilledIffSongUri ==
    \A t \in TokenIds : orders[t].fulfilled <=> (orders[t].songUri # "")

C1_Witness ==
    /\ \E t \in TokenIds : orders[t].fulfilled /\ orders[t].songUri # ""
    /\ \E t \in TokenIds : ~orders[t].fulfilled /\ orders[t].songUri = ""
    /\ lastCall.op = "withdraw"

\* C2: neither type counter ever exceeds its cap; a mint of a type whose
\* counter equals its cap fails as sold out and leaves the counter where it
\* is; a successful mint raises the counter of its type by exactly 1, leaves
\* the other counter alone and returns the next token id (0 for the first).
C2_MintStep ==
    /\ (IsCall("mintBirthdaySong")
          /\ birthdaysMinted = BIRTHDAY_SUPPLY_LIMIT)
         => /\ FailsWith("Birthday songs sold out")
            /\ birthdaysMinted' = birthdaysMinted
    /\ (IsCall("mintNatalSong") /\ natalsMinted = NATAL_SUPPLY_LIMIT)
         => /\ FailsWith("Natal chart songs sold out")
            /\ natalsMinted' = natalsMinted
    /\ (IsCall("mintBirthdaySong") /\ Succeeds)
         => /\ birthdaysMinted' = birthdaysMinted + 1
            /\ natalsMinted' = natalsMinted
            /\ lastCall'.ret = nextTokenId
    /\ (IsCall("mintNatalSong") /\ Succeeds)
         => /\ natalsMinted' = natalsMinted + 1
            /\ birthdaysMinted' = birthdaysMinted
            /\ lastCall'.ret = nextTokenId
    /\ (~Succeeds \/ ~(IsCall("mintBirthdaySong") \/ IsCall("mintNatalSong")))
         => /\ birthdaysMinted' = birthdaysMinted
            /\ natalsMinted' = natalsMinted

C2_SupplyCap ==
    /\ [](birthdaysMinted <= BIRTHDAY_SUPPLY_LIMIT
            /\ natalsMinted <= NATAL_SUPPLY_LIMIT)
    /\ [][C2_MintStep]_vars

C2_Witness ==
    /\ birthdaysMinted = BIRTHDAY_SUPPLY_LIMIT
    /\ lastCall.op = "mintBirthdaySong"
    /\ ~lastCall.ok
    /\ lastCall.error = "Birthday songs sold out"

\* C3: a fulfillOrder call by the owner on a minted, unfulfilled token is
\* refused only for an empty songUri and otherwise marks it fulfilled; any
\* fulfillOrder call on a fulfilled token fails (with "Already fulfilled"
\* when the owner sends it) and leaves the contract and the token balances,
\* hence the stored songUri, unchanged.
C3_FulfilStep ==
    LET t == lastCall'.arg
    IN  IsCall("fulfillOrder") /\ Exists(t) =>
          /\ (lastCall'.sender = owner /\ ~orders[t].fulfilled)
               => \/ FailsWith("Song URI required") /\ UNCHANGED chainVars
                  \/ /\ Succeeds
                     /\ orders'[t].fulfilled
                     /\ orders'[t].songUri \in SongUris \ {""}
          /\ orders[t].fulfilled
               => /\ ~Succeeds
                  /\ UNCHANGED chainVars
                  /\ orders'[t].songUri = orders[t].songUri
          /\ (lastCall'.sender = owner /\ orders[t].fulfilled)
               => FailsWith("Already fulfilled")

C4_WithdrawStep ==
    LET B == usdcBalance[THIS]
        N == nextTokenId - lastWithdrawnTokenId
        F == PLATFORM_FEE
        toPlatform == lastCall'.toPlatform
        toOwner == lastCall'.toOwner
    IN  IsCall("withdraw") /\ Succeeds =>
          /\ lastCall'.sender = owner
          /\ B > 0
          /\ B >= N * F => toPlatform = N * F /\ toOwner = B - N * F
          /\ B < N * F => toPlatform = B /\ toOwner = 0
          /\ usdcBalance'[THIS] = 0
          /\ \A h \in Users :
               usdcBalance'[h] = usdcBalance[h]
                   + (IF h = platformWallet THEN toPlatform ELSE 0)
                   + (IF h = owner THEN toOwner ELSE 0)

C5_EveryOwnerCallAdvances ==
    [][IsCall("withdraw") /\ lastCall'.sender = owner
         => lastWithdrawnTokenId' = nextTokenId]_vars

\* C5, amended: every successful withdraw moves the watermark to the current
\* mint count, whether or not the full fee N * F was paid; no other step
\* (a reverted withdraw included) moves it; so the fee of a withdraw is at
\* most F for each token minted since the previous successful withdraw.
C5_WatermarkStep ==
    LET N == nextTokenId - lastWithdrawnTokenId
    IN  /\ (IsCall("withdraw") /\ Succeeds)
             => /\ lastWithdrawnTokenId' = nextTokenId
                /\ nextTokenId' = nextTokenId
                /\ lastCall'.toPlatform <= N * PLATFORM_FEE
        /\ ~(IsCall("withdraw") /\ Succeeds)
             => lastWithdrawnTokenId' = lastWithdrawnTokenId

C5_WatermarkAdvances == [][C5_WatermarkStep]_vars

C5_Witness ==
    /\ lastCall.op = "withdraw"
    /\ lastCall.ok
    /\ nextTokenId >= 2
    /\ lastWithdrawnTokenId = nextTokenId
    /\ lastCall.toPlatform < PLATFORM_FEE

MintCall == IsCall("mintBirthdaySong") \/ IsCall("mintNatalSong")

\* C11: a mint call that fails does so for an empty orderDataUri, a sold-out
\* type or a failed payment transfer, and leaves the counters, the next
\* token id, the orders, the token owners and every token balance and
\* allowance as they were; no order is ever stored with an empty
\* orderDataUri.
C11_FailedMintStep ==
    (MintCall /\ ~Succeeds) =>
        /\ lastCall'.error \in {"Order data URI required",
                                "Birthday songs sold out",
                                "Natal chart songs sold out",
                                "ERC20: transfer failed"}
        /\ UNCHANGED chainVars

C11_FailedMintAtomic ==
    /\ [](\A t \in TokenIds : orders[t].orderDataUri # "")
    /\ [][C11_FailedMintStep]_vars

\* a mint refused for the balance alone: the allowance covers the price
C11_Witness ==
    /\ lastCall.op = "mintBirthdaySong"
    /\ ~lastCall.ok
    /\ lastCall.error = "ERC20: transfer failed"
    /\ usdcAllowance[lastCall.sender] >= birthdayPrice
    /\ usdcBalance[lastCall.sender] < birthdayPrice
    /\ nextTokenId > 0

\* C12: the minted token ids are exactly 0 .. totalOrders - 1; the k-th
\* successful mint returns k - 1 and adds that id; a failed mint and every
\* other call leave the set of ids as it is.
C12_IdStep ==
    /\ (MintCall /\ Succeeds)
         => /\ lastCall'.ret = birthdaysMinted + natalsMinted
            /\ lastCall'.ret = nextTokenId
            /\ nextTokenId' = nextTokenId + 1
            /\ DOMAIN orders' = DOMAIN orders \cup {lastCall'.ret}
            /\ lastCall'.ret \notin DOMAIN orders
    /\ ~(MintCall /\ Succeeds)
         => /\ nextTokenId' = nextTokenId
            /\ DOMAIN orders' = DOMAIN orders

C12_SequentialIds ==
    /\ [](/\ DOMAIN orders = 0 .. (nextTokenId - 1)
          /\ DOMAIN tokenOwner = DOMAIN orders
          /\ nextTokenId = birthdaysMinted + natalsMinted)
    /\ [][C12_IdStep]_vars

\* the second successful mint, of the other type, returned id 1
C12_Witness ==
    /\ lastCall.op = "mintNatalSong"
    /\ lastCall.ok
    /\ lastCall.ret = 1
    /\ nextTokenId = 2
    /\ orders[0].songType = BIRTHDAY

\* C13: a fulfillOrder or withdraw call sent by any account other than the
\* current owner fails and leaves the contract and every token balance
\* unchanged.
C13_OwnerOnlyStep ==
    ((IsCall("fulfillOrder") \/ IsCall("withdraw"))
        /\ lastCall'.sender # owner)
        => /\ FailsWith("OwnableUnauthorizedAccount")
           /\ UNCHANGED chainVars

C13_OnlyOwnerFulfilsOrWithdraws == [][C13_OwnerOnlyStep]_vars

\* the deployer, after handing ownership on, is refused a withdraw of funds
\* that are there
C13_Witness ==
    /\ lastCall.op = "withdraw"
    /\ lastCall.sender = Deployer
    /\ owner # Deployer
    /\ ~lastCall.ok
    /\ usdcBalance[THIS] > 0

\* C14: a withdraw in which the payment to the platform wallet or the
\* payment to the owner cannot be made fails as a whole, and a failed
\* withdraw leaves the balances of the contract, the platform wallet and
\* the owner, and the watermark, as they were.
C14_WithdrawStep ==
    LET B == usdcBalance[THIS]
        due == (nextTokenId - lastWithdrawnTokenId) * PLATFORM_FEE
    IN  /\ (IsCall("withdraw") /\ ~Succeeds)
             => /\ usdcBalance' = usdcBalance
                /\ lastWithdrawnTokenId' = lastWithdrawnTokenId
                /\ UNCHANGED contractVars
        /\ (IsCall("withdraw") /\ Succeeds)
             => /\ (B > 0 /\ due > 0) => platformWallet # ZERO
                /\ usdcBalance'[THIS] = 0

C14_WithdrawAllOrNothing == [][C14_WithdrawStep]_vars

\* the token refused one of the two payments although the platform wallet
\* is set and the contract holds more than the fee
C14_Witness ==
    /\ lastCall.op = "withdraw"
    /\ lastCall.sender = owner
    /\ lastCall.error = "ERC20: transfer failed"
    /\ platformWallet # ZERO
    /\ platformWallet # owner
    /\ usdcBalance[THIS] > newOrders * PLATFORM_FEE
    /\ newOrders > 0

\* C15: a withdraw by the owner with nothing in the contract fails with
\* "No funds to withdraw" and changes nothing; with a positive balance no
\* withdraw fails with that error.
C15_NoFundsStep ==
    IsCall("withdraw") =>
        /\ (lastCall'.sender = owner /\ usdcBalance[THIS] = 0)
             => /\ FailsWith("No funds to withdraw")
                /\ UNCHANGED chainVars
        /\ usdcBalance[THIS] > 0
             => lastCall'.error # "No funds to withdraw"

C15_NoFunds == [][C15_NoFundsStep]_vars

\* refused although tokens were minted since the last withdraw
C15_Witness ==
    /\ lastCall.op = "withdraw"
    /\ lastCall.error = "No funds to withdraw"
    /\ usdcBalance[THIS] = 0
    /\ newOrders > 0

\* C16: the songType, orderDataUri, orderedBy, orderedAt and pricePaid of
\* a minted token's order are written by its mint (pricePaid the price of
\* its type at that moment, orderedAt the time, orderedBy the caller) and
\* never change afterwards, whatever is called.
OrderTerms(t) ==
    <<orders[t].songType, orders[t].orderDataUri, orders[t].orderedBy,
      orders[t].orderedAt, orders[t].pricePaid>>

C16_OrderStep ==
    /\ \A t \in TokenIds : OrderTerms(t)' = OrderTerms(t)
    /\ (MintCall /\ Succeeds) =>
         LET t == lastCall'.ret
         IN  /\ orders'[t].songType = lastCall'.arg
             /\ orders'[t].orderedBy = lastCall'.sender
             /\ orders'[t].orderedAt = now
             /\ orders'[t].pricePaid =
                  IF lastCall'.arg = BIRTHDAY THEN birthdayPrice
                  ELSE natalPrice

C16_OrderTermsImmutable == [][C16_OrderStep]_vars

\* a token bought earlier at a price that is no longer the current one,
\* since fulfilled, paid out and handed on
C16_Witness ==
    \E t \in TokenIds :
        /\ orders[t].songType = BIRTHDAY
        /\ orders[t].pricePaid # birthdayPrice
        /\ orders[t].orderedAt < now
        /\ orders[t].fulfilled
        /\ tokenOwner[t] # orders[t].orderedBy
        /\ lastWithdrawnTokenId > t
        /\ platformWallet = "platform"
        /\ nextTokenId > t + 1

\* C17: a fulfilled token stays fulfilled and keeps its songUri in every
\* later state.
C17_FulfilledStep ==
    \A t \in TokenIds :
        orders[t].fulfilled =>
            /\ orders'[t].fulfilled
            /\ orders'[t].songUri = orders[t].songUri

C17_FulfilledForever == [][C17_FulfilledStep]_vars

\* the owner tried a different songUri on a fulfilled token, which kept its
\* own
C17_Witness ==
    /\ lastCall.op = "fulfillOrder"
    /\ lastCall.sender = owner
    /\ ~lastCall.ok
    /\ Exists(lastCall.arg)
    /\ orders[lastCall.arg].fulfilled
    /\ orders[lastCall.arg].songUri = "ardrive://tx2"
    /\ \E t \in TokenIds : orders[t].songUri = "ardrive://tx1"

\* C18: getSupplyInfo never fails and returns, per type, the counter, cap
\* minus counter, the cap and whether the counter has reached the cap, and
\* in total the sum of the counters, the total cap minus that sum, which is
\* the sum of the two remaining values, and the total cap; a call of it
\* changes nothing.
C18_SupplyValues ==
    LET r == getSupplyInfo
    IN  /\ r.ok
        /\ r.birthdaysMinted_ = birthdaysMinted
        /\ r.birthdaysRemaining = BIRTHDAY_SUPPLY_LIMIT - birthdaysMinted
        /\ r.birthdaysRemaining >= 0
        /\ r.birthdayLimit = BIRTHDAY_SUPPLY_LIMIT
        /\ r.birthdaysSoldOut <=> (birthdaysMinted >= BIRTHDAY_SUPPLY_LIMIT)
        /\ r.natalsMinted_ = natalsMinted
        /\ r.natalsRemaining = NATAL_SUPPLY_LIMIT - natalsMinted
        /\ r.natalsRemaining >= 0
        /\ r.natalLimit = NATAL_SUPPLY_LIMIT
        /\ r.natalsSoldOut <=> (natalsMinted >= NATAL_SUPPLY_LIMIT)
        /\ r.totalMinted = birthdaysMinted + natalsMinted
        /\ r.totalRemaining = TOTAL_SUPPLY_LIMIT - r.totalMinted
        /\ r.totalRemaining = r.birthdaysRemaining + r.natalsRemaining
        /\ r.totalLimit = TOTAL_SUPPLY_LIMIT

C18_SupplyInfo ==
    /\ []C18_SupplyValues
    /\ [][IsCall("getSupplyInfo") => Succeeds /\ UNCHANGED chainVars]_vars

\* asked when one type is sold out and the other is not
C18_Witness ==
    /\ lastCall.op = "getSupplyInfo"
    /\ lastCall.ok
    /\ getSupplyInfo.birthdaysSoldOut
    /\ ~getSupplyInfo.natalsSoldOut
    /\ getSupplyInfo.totalRemaining = NATAL_SUPPLY_LIMIT

\* C19: setPrices and setPlatformWallet fail for every caller but the owner
\* and a failed call changes nothing; setPlatformWallet never stores the
\* zero address; a successful setPrices changes nothing but the two prices
\* and a successful setPlatformWallet nothing but platformWallet.
C19_SetterStep ==
    /\ ((IsCall("setPrices") \/ IsCall("setPlatformWallet"))
          /\ lastCall'.sender # owner)
         => FailsWith("OwnableUnauthorizedAccount")
    /\ ((IsCall("setPrices") \/ IsCall("setPlatformWallet")) /\ ~Succeeds)
         => UNCHANGED chainVars
    /\ (IsCall("setPrices") /\ Succeeds)
         => UNCHANGED <<owner, platformWallet, birthdaysMinted,
                        natalsMinted, nextTokenId, lastWithdrawnTokenId,
                        orders, tokenOwner, usdcVars>>
    /\ (IsCall("setPlatformWallet") /\ Succeeds)
         => /\ platformWallet' # ZERO
            /\ UNCHANGED <<owner, birthdayPrice, natalPrice,
                           birthdaysMinted, natalsMinted, nextTokenId,
                           lastWithdrawnTokenId, orders, tokenOwner,
                           usdcVars>>
    /\ ~(IsCall("setPrices") /\ Succeeds)
         => UNCHANGED <<birthdayPrice, natalPrice>>
    /\ ~(IsCall("setPlatformWallet") /\ Succeeds)
         => UNCHANGED platformWallet

C19_OwnerOnlySetters == [][C19_SetterStep]_vars

\* the owner tried to set the zero address over a wallet set before
C19_Witness ==
    /\ lastCall.op = "setPlatformWallet"
    /\ lastCall.sender = owner
    /\ lastCall.error = "Invalid platform wallet"
    /\ platformWallet = "platform"
    /\ birthdayPrice # InitialBirthdayPrice

\* ------------------------------------------------------------------------
\* Properties of the gateway and its ledger
\* ------------------------------------------------------------------------
Served == lastResp.op = "getSong" /\ lastResp.status = 200

\* C6: GET /api/songs/:tokenId/:userAddress returns the song only if the
\* order of tokenId is fulfilled on the contract and userAddress is the
\* current owner of the token.
C6_SongOnlyToCurrentOwner ==
    Served =>
        /\ Exists(lastResp.tokenId)
        /\ orders[lastResp.tokenId].fulfilled
        /\ tokenOwner[lastResp.tokenId] = lastResp.user

\* a previous owner, who handed the fulfilled token on, is served
C6_PreviousOwnerServed ==
    /\ Served
    /\ Exists(lastResp.tokenId)
    /\ orders[lastResp.tokenId].fulfilled
    /\ orders[lastResp.tokenId].orderedBy = lastResp.user
    /\ tokenOwner[lastResp.tokenId] # lastResp.user

\* C7: for a minted token whose on-chain order is unfulfilled, the
\* song-retrieval route never returns the song, whatever the ledger says.
C7_UnfulfilledRefused ==
    (/\ lastResp.op = "getSong"
     /\ Exists(lastResp.tokenId)
     /\ ~orders[lastResp.tokenId].fulfilled)
        => lastResp.status # 200

\* the ledger row says fulfilled, the contract does not, the song is served
C7_StaleRowServed ==
    /\ Served
    /\ Exists(lastResp.tokenId)
    /\ ~orders[lastResp.tokenId].fulfilled
    /\ tokenOwner[lastResp.tokenId] = lastResp.user
    /\ \A i \in RowsOf(lastResp.tokenId) : ledger[i].status = "fulfilled"

\* C8: the ledger never holds two rows with the same token_id.
C8_OneRowPerToken ==
    \A i, j \in 1 .. Len(ledger) :
        ledger[i].token_id = ledger[j].token_id => i = j

\* C9: POST /api/orders/fulfill creates no row and changes nothing when no
\* row has the token id, and applied again with the same song id to a row
\* it has already marked fulfilled it leaves that row (status, song id,
\* fulfilled_at) as it is.
C9_FulfillStep ==
    LET t == lastResp'.tokenId
    IN  lastResp'.op = "postOrdersFulfill" =>
          /\ Len(ledger') = Len(ledger)
          /\ RowsOf(t) = {} => ledger' = ledger
          /\ \A i \in RowsOf(t) :
               (/\ ledger[i].status = "fulfilled"
                /\ ledger[i].song_arweave_id = lastResp'.arweaveId)
                   => ledger'[i] = ledger[i]

C9_RecordFulfilledReappliable == [][C9_FulfillStep]_vars

\* the half of C9 that the route keeps: without a row nothing is written
C9_NoRowNoWrite ==
    /\ lastResp.op = "postOrdersFulfill"
    /\ lastResp.status = 200
    /\ RowsOf(lastResp.tokenId) = {}
    /\ ledger # <<>>

RowMatches(t) ==
    /\ Exists(t)
    /\ \E i \in RowsOf(t) :
         ledger[i].status =
             IF orders[t].fulfilled THEN "fulfilled" ELSE "pending"

\* C10: in a fair run of the order flow every minted token eventually has
\* a ledger row under its token id whose status is 'fulfilled' if the
\* on-chain order is fulfilled and 'pending' if it is not.
C10_LedgerConverges ==
    \A t \in 0 .. TOTAL_SUPPLY_LIMIT - 1 : [](Exists(t) => <>RowMatches(t))

\* the flow ran to its end: tokens minted, one fulfilled on the contract,
\* rows in the ledger, none of them under a token id
C10_FlowDone ==
    /\ nextTokenId = TOTAL_SUPPLY_LIMIT
    /\ \E t \in TokenIds : orders[t].fulfilled
    /\ Len(ledger) = TOTAL_SUPPLY_LIMIT
    /\ \A t \in TokenIds : RowsOf(t) = {}

UploadedAs(id, kind) ==
    Stored(id) /\ arweave[Content(id)].kind = kind

\* C20: fetching an order by the content identifier its upload returned
\* succeeds and returns the uploaded content, and so does fetching a song.
C20_RoundTrip ==
    /\ (lastResp.op = "getOrder"
          /\ UploadedAs(lastResp.arweaveId, "order-data"))
         => /\ lastResp.status = 200
            /\ lastResp.songData = arweave[Content(lastResp.arweaveId)].data
    /\ (lastResp.op = "getSongLegacy"
          /\ UploadedAs(lastResp.arweaveId, "song-file"))
         => /\ lastResp.status = 200
            /\ lastResp.songData = arweave[Content(lastResp.arweaveId)].data

\* the half that works: an uploaded song comes back as uploaded
C20_SongComesBack ==
    /\ lastResp.op = "getSongLegacy"
    /\ lastResp.status = 200
    /\ UploadedAs(lastResp.arweaveId, "song-file")
    /\ lastResp.songData = "mp3"

\* ------------------------------------------------------------------------
\* Properties of the upload service
\* ------------------------------------------------------------------------
IsReq(op) == lastResp'.op = op
Stores == Len(arweave') = Len(arweave) + 1

\* C21: an order or song upload of the upload service answers 200 exactly
\* when the content store took the item, and then returns the identifier the
\* store gave it, whether the mirror call to the ledger got through, was
\* answered with an error, or wrote nothing; without a stored item the
\* ledger is not written.
C21_UploadStep ==
    (IsReq("ordersUpload") \/ IsReq("songsUpload")) =>
        /\ lastResp'.status = 200 <=> Stores
        /\ ~Stores => arweave' = arweave /\ ledger' = ledger
        /\ Stores => /\ lastResp'.arweaveId = arweave'[Len(arweave')].id
                     /\ lastResp'.error = ""

C21_MirrorBestEffort == [][C21_UploadStep]_vars

\* an order upload and a song upload have both been answered with 200 while
\* the ledger holds no trace of either
C21_Witness ==
    /\ lastResp.op = "songsUpload"
    /\ lastResp.status = 200
    /\ Len(arweave) = 2
    /\ arweave[1].kind = "order-data"
    /\ ledger = <<>>

\* ------------------------------------------------------------------------
\* Properties of the order form
\* ------------------------------------------------------------------------
\* uri is the ardrive:// URI of an order the content store holds
UploadedOrderUri(uri) ==
    \E i \in 1 .. Len(arweave) :
        /\ arweave[i].kind = "order-data"
        /\ uri = ArdriveUri(arweave[i].id)

\* C22: the order form sends an approval or a mint only with an
\* orderDataUri built from an identifier the order upload returned, so every
\* token minted through the form carries the URI of an uploaded order; after
\* a failed upload nothing is sent.
C22_MintOnlyAfterUpload ==
    /\ cust.step \in {"approve", "mint"} => UploadedOrderUri(cust.uri)
    /\ \A t \in TokenIds : UploadedOrderUri(orders[t].orderDataUri)

\* a token was paid for and minted although no order was ever uploaded
C22_MockUriMinted ==
    /\ arweave = <<>>
    /\ lastResp = NoResp
    /\ \E t \in TokenIds :
          /\ orders[t].orderDataUri = "mock://order"
          /\ orders[t].pricePaid > 0
          /\ usdcBalance[THIS] >= orders[t].pricePaid

\* ------------------------------------------------------------------------
\* Properties of the stored order details
\* ------------------------------------------------------------------------
\* C23: no caller other than the creator obtains an order's personal
\* details: not in what GET /api/orders returns, not in what
\* GET /api/orders/:arweaveId or the fetch of a stored item by its
\* identifier returns, and not in what the upload service wrote to the
\* content store, which holds order data as ciphertext only.
C23_DetailsCreatorOnly ==
    /\ lastResp.user # Deployer =>
          /\ \A row \in lastResp.orders : row.recipient_name = ""
          /\ ReadableIn(lastResp.songData) = {}
    /\ \A i \in 1 .. Len(arweave) :
          arweave[i].kind = "order-data" => ReadableIn(arweave[i].data) = {}

\* a customer's address lists the orders and is given the personal details
\* of an order
C23_DetailsListed ==
    /\ lastResp.op = "getOrders"
    /\ lastResp.user = "alice"
    /\ \E row \in lastResp.orders : row.recipient_name = PersonalData.orderA

\* ------------------------------------------------------------------------
\* Further properties of the contract
\* ------------------------------------------------------------------------
\* C24: a type's counter never decreases and never passes its cap, so a
\* type that is sold out stays sold out; every mint of a sold-out type
\* fails with that type's "sold out" error; a mint of a type that is not
\* sold out never fails with a "sold out" error: it succeeds unless its
\* URI is empty or the payment does not go through, whatever the other
\* type's counter is.
C24_SoldOutStep ==
    /\ birthdaysMinted' >= birthdaysMinted
    /\ natalsMinted' >= natalsMinted
    /\ IsCall("mintBirthdaySong") =>
          IF birthdaysMinted >= BIRTHDAY_SUPPLY_LIMIT
          THEN FailsWith("Birthday songs sold out")
          ELSE /\ Succeeds \/ FailsWith("Order data URI required")
                  \/ FailsWith("ERC20: transfer failed")
               /\ Succeeds => orders'[nextTokenId].orderDataUri # ""
               /\ CanTransferFrom(lastCall'.sender, birthdayPrice)
                    => ~FailsWith("ERC20: transfer failed")
               /\ Succeeds => CanTransferFrom(lastCall'.sender, birthdayPrice)
    /\ IsCall("mintNatalSong") =>
          IF natalsMinted >= NATAL_SUPPLY_LIMIT
          THEN FailsWith("Natal chart songs sold out")
          ELSE /\ Succeeds \/ FailsWith("Order data URI required")
                  \/ FailsWith("ERC20: transfer failed")
               /\ Succeeds => orders'[nextTokenId].orderDataUri # ""
               /\ CanTransferFrom(lastCall'.sender, natalPrice)
                    => ~FailsWith("ERC20: transfer failed")
               /\ Succeeds => CanTransferFrom(lastCall'.sender, natalPrice)

C24_SoldOutTerminal ==
    /\ [](birthdaysMinted <= BIRTHDAY_SUPPLY_LIMIT)
    /\ [](natalsMinted <= NATAL_SUPPLY_LIMIT)
    /\ [][C24_SoldOutStep]_vars

\* a natal chart song was minted while birthday songs were sold out
C24_Witness ==
    /\ lastCall.op = "mintNatalSong"
    /\ lastCall.ok
    /\ birthdaysMinted = BIRTHDAY_SUPPLY_LIMIT
    /\ natalsMinted = 1

\* ------------------------------------------------------------------------
\* Properties of the fulfilment flow
\* ------------------------------------------------------------------------
\* C25: the ledger is never ahead of the contract: every ledger row with
\* status 'fulfilled' belongs to a minted token whose on-chain fulfilled
\* flag is set.
C25_LedgerNeverAhead ==
    \A i \in 1 .. Len(ledger) :
        ledger[i].status = "fulfilled" =>
            /\ Exists(ledger[i].token_id)
            /\ orders[ledger[i].token_id].fulfilled

\* the dashboard has uploaded the song and not yet sent fulfillOrder: the
\* ledger already shows the token as fulfilled
C25_LedgerAhead ==
    /\ creator.step = "fulfilling"
    /\ Exists(creator.tokenId)
    /\ ~orders[creator.tokenId].fulfilled
    /\ \E i \in RowsOf(creator.tokenId) : ledger[i].status = "fulfilled"

\* ------------------------------------------------------------------------
\* Properties of the platform fee
\* ------------------------------------------------------------------------
\* C26: the watermark never passes the number of minted tokens; what the
\* platform wallet has received as fee from all withdraws together is at
\* most PLATFORM_FEE for each token under the watermark; one withdraw pays
\* at most PLATFORM_FEE for each token minted since the watermark, and
\* nothing when no token was minted since the last withdraw, whatever the
\* contract holds.
C26_FeeStep ==
    IsCall("withdraw") =>
        /\ lastCall'.toPlatform <= PLATFORM_FEE * newOrders
        /\ newOrders = 0 =>
              /\ lastCall'.toPlatform = 0
              /\ usdcBalance'["platform"] = usdcBalance["platform"]
        /\ usdcBalance'["platform"] =
              usdcBalance["platform"] + lastCall'.toPlatform

C26_FeeOncePerToken ==
    /\ [](lastWithdrawnTokenId <= nextTokenId)
    /\ [](usdcBalance["platform"] <= PLATFORM_FEE * lastWithdrawnTokenId)
    /\ [][C26_FeeStep]_vars

\* a second withdraw with no mint since the first paid out the tokens sent
\* to the contract in between, all of it to the owner
C26_Witness ==
    /\ lastCall.op = "withdraw"
    /\ lastCall.ok
    /\ lastCall.toPlatform = 0
    /\ lastCall.toOwner = Donation
    /\ nextTokenId > 0
    /\ usdcBalance["platform"] = PLATFORM_FEE * nextTokenId

\* ------------------------------------------------------------------------
\* Properties of the counters
\* ------------------------------------------------------------------------
OrdersOfType(songType) == {t \in TokenIds : orders[t].songType = songType}

\* C27: in every reachable state the two type counters add up to
\* totalOrders, the orders that exist are those of the ids below it, and
\* each counter is the number of existing orders of its type.
C27_CountersMatchOrders ==
    /\ birthdaysMinted + natalsMinted = totalOrders
    /\ DOMAIN orders = TokenIds
    /\ Cardinality(OrdersOfType(BIRTHDAY)) = birthdaysMinted
    /\ Cardinality(OrdersOfType(NATAL)) = natalsMinted

\* one order of each type exists, and a further mint has just failed
C27_Witness ==
    /\ OrdersOfType(BIRTHDAY) # {}
    /\ OrdersOfType(NATAL) # {}
    /\ lastCall.op \in {"mintBirthdaySong", "mintNatalSong"}
    /\ ~lastCall.ok

\* ------------------------------------------------------------------------
\* Properties of the platform wallet
\* ------------------------------------------------------------------------
\* C28: the platform wallet is not the zero address in any reachable
\* state, whatever arguments the contract was deployed with and whatever
\* setPlatformWallet calls were made.
C28_PlatformWalletNeverZero == platformWallet # ZERO

\* deployed with the zero address as platform wallet, the contract has sold
\* a token and the owner's withdraw fails on the fee transfer
C28_WithdrawBlocked ==
    /\ platformWallet = ZERO
    /\ lastCall.op = "withdraw"
    /\ lastCall.sender = owner
    /\ lastCall.error = "ERC20: transfer failed"
    /\ usdcBalance[THIS] > 0

\* ------------------------------------------------------------------------
\* Properties of token 0
\* ------------------------------------------------------------------------
\* C29: with tokenId = 0 in every request, recordCreated and
\* recordFulfilled with a non-empty content identifier are not answered
\* 400, no song upload is refused for a missing tokenId, and every stored
\* item and every ledger row is recorded under token id 0.
C29_TokenZeroAccepted ==
    /\ (/\ lastResp.op \in {"postOrdersMetadata", "postOrdersFulfill"}
        /\ lastResp.arweaveId # "") => lastResp.status # 400
    /\ lastResp.error # "Missing tokenId in request body"
    /\ \A i \in 1 .. Len(arweave) : arweave[i].tokenTag = 0
    /\ \A i \in 1 .. Len(ledger) : ledger[i].token_id = 0

\* an order uploaded for token 0 is stored, and mirrored to the ledger,
\* under the timestamp
C29_OrderUnderTimestamp ==
    /\ lastResp.op = "ordersUpload"
    /\ lastResp.status = 200
    /\ lastResp.tokenId = DateNow
    /\ arweave[Len(arweave)].tokenTag = DateNow
    /\ \E i \in 1 .. Len(ledger) :
          /\ ledger[i].token_id = DateNow
          /\ ledger[i].arweave_id = lastResp.arweaveId

\* ------------------------------------------------------------------------
\* Properties of the encryption helper
\* ------------------------------------------------------------------------
\* C30: what encrypt(data, p) returned, on its normal path or on its
\* fallback, is turned back into data by decrypt under p, and is not
\* turned back into data by decrypt under any other password.
C30_OnlySamePassword ==
    box.stage = "decrypted" =>
        /\ box.key = box.password => box.out = box.data
        /\ box.key # box.password => box.out # box.data

\* an order encrypted on the fallback was read back with a password that
\* is not the one it was encrypted with
C30_ReadWithWrongPassword ==
    /\ box.stage = "decrypted"
    /\ box.failed
    /\ box.subtle
    /\ box.data = "orderA"
    /\ box.password = "master"
    /\ box.key = "guess"
    /\ box.out = "orderA"

====
